---- MODULE Spec2Model ----
(***************************************************************************)
(* A model of melonJS's CanvasRenderer (src/video/canvas/canvas_renderer.js)*)
(* and GLShader (video/webgl/glshader.js, kept as src/unnamed/part_000),    *)
(* over an abstract CanvasRenderingContext2D: every surface keeps the state *)
(* the 2D context keeps (global alpha, composite operation, styles,         *)
(* transform, clip, current path, save/restore stack), and every handler    *)
(* of the renderer is an operator from a renderer state to a renderer       *)
(* state that logs the surface calls it issues.  The shaders are objects    *)
(* with nullable attribute and uniform tables; the calls they issue on the  *)
(* WebGL context and the notifications of the event bus go to the same log. *)
(*                                                                         *)
(* Units.  Coordinates are integers in units of 1/CoordScale pixel, so that *)
(* non-integer positions exist.  A global alpha a stands for a/AlphaScale.  *)
(***************************************************************************)
EXTENDS Integers, Sequences, FiniteSets, TLC

VARIABLES
    settings,   \* this.settings: doubleBuffering, transparent, subPixel
    renderer,   \* the renderer's own fields (maskLevel, currentScissor, ...)
    surf,       \* the 2D contexts, by identity: front, back, ext
    calls,      \* the surface calls issued by the last operation, in order
    thrown,     \* the exception the last operation ended with, or "none"
    lastOp,     \* the last operation and its arguments
    hist,       \* history of the current mask run (for the mask claims)
    shaders,    \* the GLShader objects, by identity
    gl,         \* the WebGL context: program in use, deleted programs
    subs,       \* the event bus: the subscribers of ONCONTEXT_LOST, in order
    returned    \* the value the last operation returned, or undefined

vars == <<settings, renderer, surf, calls, thrown, lastOp, hist, shaders, gl, subs, returned>>

---------------------------------------------------------------------------
(* Bounds of the model *)

MaxStack == 2       \* surface save/restore stack depth explored
MaxMask == 2        \* setMask calls explored between two clearMask calls
MaxShift == 1       \* |translation| explored, in pixels

(* Units *)
CoordScale == 1 + 1
AlphaScale == 2 * 255
Px(n) == n * CoordScale

(* the canvas size, options.width x options.height *)
Canvas == [width |-> Px(4), height |-> Px(4)]

(* JavaScript's undefined, for omitted numeric arguments *)
undefined == 0 - 99999

Last(q) == q[Len(q)]
Front(q) == SubSeq(q, 1, Len(q) - 1)

(* ~~x and x|0 : truncation toward zero *)
Trunc(n) ==
    IF n >= 0 THEN (n \div CoordScale) * CoordScale
    ELSE 0 - (((0 - n) \div CoordScale) * CoordScale)

---------------------------------------------------------------------------
(* The 2D context (CanvasRenderingContext2D) *)

SurfIds == {"front", "back", "ext"}

Frame(x) ==
    [globalAlpha |-> x.globalAlpha,
     globalCompositeOperation |-> x.globalCompositeOperation,
     fillStyle |-> x.fillStyle, strokeStyle |-> x.strokeStyle,
     tx |-> x.tx, ty |-> x.ty, clip |-> x.clip]

NewContext ==
    [globalAlpha |-> AlphaScale, globalCompositeOperation |-> "source-over",
     fillStyle |-> "#000000", strokeStyle |-> "#000000",
     tx |-> 0, ty |-> 0, clip |-> {}, path |-> <<>>, stack |-> <<>>]

CtxCall(s, c, f, a) ==
    [s EXCEPT !.log = Append(@, [ctx |-> c, fn |-> f, args |-> a])]

CtxSave(s, c) ==
    CtxCall([s EXCEPT !.sf[c].stack = Append(@, Frame(s.sf[c]))], c, "save", <<>>)

CtxRestore(s, c) ==
    LET x == s.sf[c]
        f == Last(x.stack)
    IN  CtxCall(
          IF x.stack = <<>> THEN s
          ELSE [s EXCEPT !.sf[c] =
                  [globalAlpha |-> f.globalAlpha,
                   globalCompositeOperation |-> f.globalCompositeOperation,
                   fillStyle |-> f.fillStyle, strokeStyle |-> f.strokeStyle,
                   tx |-> f.tx, ty |-> f.ty, clip |-> f.clip,
                   path |-> x.path, stack |-> Front(x.stack)]],
          c, "restore", <<>>)

CtxSetGlobalAlpha(s, c, a) ==
    CtxCall(IF a >= 0 /\ a <= AlphaScale THEN [s EXCEPT !.sf[c].globalAlpha = a] ELSE s,
            c, "globalAlpha=", <<a>>)

CtxSetComposite(s, c, op) ==
    CtxCall([s EXCEPT !.sf[c].globalCompositeOperation = op],
            c, "globalCompositeOperation=", <<>>)

CtxSetFillStyle(s, c, style) ==
    CtxCall([s EXCEPT !.sf[c].fillStyle = style], c, "fillStyle=", <<>>)

CtxSetStrokeStyle(s, c, style) ==
    CtxCall([s EXCEPT !.sf[c].strokeStyle = style], c, "strokeStyle=", <<>>)

CtxSetTransform(s, c, e, f) ==
    CtxCall([s EXCEPT !.sf[c].tx = e, !.sf[c].ty = f], c, "setTransform", <<e, f>>)

(* transform(a, b, c, d, e, f) with the identity as linear part (a = d = 1, *)
(* b = c = 0), the matrices the model draws: the origin moves by (e, f)     *)
CtxTransform(s, c, m) ==
    CtxCall([s EXCEPT !.sf[c].tx = @ + m[5], !.sf[c].ty = @ + m[6]], c, "transform", m)

CtxTranslate(s, c, x, y) ==
    CtxCall([s EXCEPT !.sf[c].tx = @ + x, !.sf[c].ty = @ + y], c, "translate", <<x, y>>)

CtxBeginPath(s, c) ==
    CtxCall([s EXCEPT !.sf[c].path = <<>>], c, "beginPath", <<>>)

(* moveTo, lineTo, rect, roundRect, arc, bezierCurveTo *)
CtxPath(s, c, f, a) ==
    CtxCall([s EXCEPT !.sf[c].path = Append(@, [fn |-> f, args |-> a])], c, f, a)

(* closePath: nothing to close in an empty path *)
CtxClosePath(s, c) ==
    CtxCall(IF s.sf[c].path = <<>> THEN s
            ELSE [s EXCEPT !.sf[c].path = Append(@, [fn |-> "closePath", args |-> <<>>])],
            c, "closePath", <<>>)

(* clip: the clip region becomes its intersection with the current path; the *)
(* region is kept as the set of paths it is the intersection of, and an      *)
(* empty path (the empty region) absorbs the others                          *)
CtxClip(s, c) ==
    LET p == s.sf[c].path
        old == s.sf[c].clip
    IN  CtxCall([s EXCEPT !.sf[c].clip =
                    IF p = <<>> \/ <<>> \in old THEN {<<>>} ELSE old \cup {p}],
                c, "clip", <<>>)

(* fill, stroke, fillRect, strokeRect, drawImage: they paint, and change no state *)
CtxPaint(s, c, f, a) == CtxCall(s, c, f, a)

---------------------------------------------------------------------------
(* CanvasRenderer: state operations *)

getContext(s) == s.rn.backBufferContext2D

getGlobalAlpha(s) == s.sf[s.rn.backBufferContext2D].globalAlpha

(* a plausible slip: the threshold itself taken for transparent *)
FullyTransparent_atThreshold(s) == getGlobalAlpha(s) * 255 <= AlphaScale

(* the fast path of every drawing primitive: getGlobalAlpha() < 1 / 255 *)
FullyTransparent(s) == getGlobalAlpha(s) * 255 < AlphaScale

resetTransform(s) == CtxSetTransform(s, s.rn.backBufferContext2D, 0, 0)

(* a plausible slip: the fallback sets the composite operation only *)
setBlendMode_fallbackKeepsMode(s, mode, context) ==
    LET m == IF mode = "undefined" THEN "normal" ELSE mode
        c == IF context = "undefined" THEN getContext(s) ELSE context
        s1 == [s EXCEPT !.rn.currentBlendMode = m]
        s2 == CASE m = "screen" -> CtxSetComposite(s1, c, "screen")
                [] m \in {"lighter", "additive"} -> CtxSetComposite(s1, c, "lighter")
                [] m = "multiply" -> CtxSetComposite(s1, c, "multiply")
                [] OTHER -> CtxSetComposite(s1, c, "source-over")
    IN  IF settings.doubleBuffering /\ settings.transparent
        THEN CtxSetComposite(s2, s.rn.context, "copy")
        ELSE s2

(* a plausible slip: the front buffer forced to "copy" before the switch *)
setBlendMode_overrideFirst(s, mode, context) ==
    LET m == IF mode = "undefined" THEN "normal" ELSE mode
        c == IF context = "undefined" THEN getContext(s) ELSE context
        s0 == IF settings.doubleBuffering /\ settings.transparent
              THEN CtxSetComposite(s, s.rn.context, "copy")
              ELSE s
        s1 == [s0 EXCEPT !.rn.currentBlendMode = m]
    IN  CASE m = "screen" -> CtxSetComposite(s1, c, "screen")
          [] m \in {"lighter", "additive"} -> CtxSetComposite(s1, c, "lighter")
          [] m = "multiply" -> CtxSetComposite(s1, c, "multiply")
          [] OTHER -> [CtxSetComposite(s1, c, "source-over")
                          EXCEPT !.rn.currentBlendMode = "normal"]

setBlendMode(s, mode, context) ==
    LET m == IF mode = "undefined" THEN "normal" ELSE mode
        c == IF context = "undefined" THEN getContext(s) ELSE context
        s1 == [s EXCEPT !.rn.currentBlendMode = m]
        s2 == CASE m = "screen" -> CtxSetComposite(s1, c, "screen")
                [] m \in {"lighter", "additive"} -> CtxSetComposite(s1, c, "lighter")
                [] m = "multiply" -> CtxSetComposite(s1, c, "multiply")
                [] OTHER -> [CtxSetComposite(s1, c, "source-over")
                                EXCEPT !.rn.currentBlendMode = "normal"]
    IN  IF settings.doubleBuffering /\ settings.transparent
        THEN CtxSetComposite(s2, s.rn.context, "copy")
        ELSE s2

(* a canvas as an image source: this.backBufferCanvas is the canvas of the *)
(* back buffer's context                                                   *)
CanvasOf(c) == IF c = "back" THEN 0 - 2 ELSE 0 - 3

(* a plausible slip: the blit without the test of the setting *)
flush_unconditional(s) ==
    CtxPaint(s, s.rn.context, "drawImage", <<CanvasOf(s.rn.backBufferContext2D), 0, 0>>)

flush(s) ==
    IF settings.doubleBuffering
    THEN CtxPaint(s, s.rn.context, "drawImage", <<CanvasOf(s.rn.backBufferContext2D), 0, 0>>)
    ELSE s

save(s) == CtxSave(s, s.rn.backBufferContext2D)

(* a plausible slip: the pop without the re-synchronisation of the caches *)
restore_noSync(s) == CtxRestore(s, s.rn.backBufferContext2D)

restore(s) ==
    LET s1 == CtxRestore(s, s.rn.backBufferContext2D)
    IN  [s1 EXCEPT !.rn.alphaCache = getGlobalAlpha(s1),
                   !.rn.currentScissor = <<0, 0, Canvas.width, Canvas.height>>]

setColor(s, color) ==
    CtxSetStrokeStyle(CtxSetFillStyle(s, s.rn.backBufferContext2D, color),
                      s.rn.backBufferContext2D, color)

setGlobalAlpha(s, alpha) ==
    CtxSetGlobalAlpha([s EXCEPT !.rn.alphaCache = alpha], s.rn.backBufferContext2D, alpha)

(* mat2d.toArray() is the 3x3 matrix in column order; e |= 0, f |= 0 truncate *)
transform(s, mat2d) ==
    LET m == mat2d
        e == IF settings.subPixel = FALSE THEN Trunc(m[7]) ELSE m[7]
        f == IF settings.subPixel = FALSE THEN Trunc(m[8]) ELSE m[8]
    IN  CtxTransform(s, s.rn.backBufferContext2D, <<m[1], m[2], m[4], m[5], e, f>>)

(* a plausible slip: the snap done with Math.floor *)
translate_floors(s, x, y) ==
    IF settings.subPixel = FALSE
    THEN CtxTranslate(s, s.rn.backBufferContext2D,
                      (x \div CoordScale) * CoordScale, (y \div CoordScale) * CoordScale)
    ELSE CtxTranslate(s, s.rn.backBufferContext2D, x, y)

translate(s, x, y) ==
    IF settings.subPixel = FALSE
    THEN CtxTranslate(s, s.rn.backBufferContext2D, Trunc(x), Trunc(y))
    ELSE CtxTranslate(s, s.rn.backBufferContext2D, x, y)

(* a plausible slip: the clip rebuilt without looking at the cached scissor *)
clipRect_noMemo(s, x, y, width, height) ==
    IF x # 0 \/ y # 0 \/ width # Canvas.width \/ height # Canvas.height
    THEN LET c == s.rn.backBufferContext2D
             s1 == CtxBeginPath(s, c)
             s2 == CtxPath(s1, c, "rect", <<x, y, width, height>>)
             s3 == CtxClip(s2, c)
         IN  [s3 EXCEPT !.rn.currentScissor = <<x, y, width, height>>]
    ELSE s

clipRect(s, x, y, width, height) ==
    IF x # 0 \/ y # 0 \/ width # Canvas.width \/ height # Canvas.height
    THEN IF s.rn.currentScissor # <<x, y, width, height>>
         THEN LET c == s.rn.backBufferContext2D
                  s1 == CtxBeginPath(s, c)
                  s2 == CtxPath(s1, c, "rect", <<x, y, width, height>>)
                  s3 == CtxClip(s2, c)
              IN  [s3 EXCEPT !.rn.currentScissor = <<x, y, width, height>>]
         ELSE s
    ELSE s

---------------------------------------------------------------------------
(* CanvasRenderer: drawing primitives *)

strokeRect(s, x, y, width, height, fill) ==
    IF FullyTransparent(s) THEN s
    ELSE CtxPaint(s, getContext(s), IF fill = TRUE THEN "fillRect" ELSE "strokeRect",
                  <<x, y, width, height>>)

(* a plausible slip: the fill flag not passed on *)
fillRect_noFlag(s, x, y, width, height) == strokeRect(s, x, y, width, height, FALSE)

fillRect(s, x, y, width, height) == strokeRect(s, x, y, width, height, TRUE)

strokeRoundRect(s, x, y, width, height, radius, fill) ==
    IF FullyTransparent(s) THEN s
    ELSE LET c == getContext(s)
             s1 == CtxBeginPath(s, c)
             s2 == CtxPath(s1, c, "roundRect", <<x, y, width, height, radius>>)
         IN  CtxPaint(s2, c, IF fill = TRUE THEN "fill" ELSE "stroke", <<>>)

fillRoundRect(s, x, y, width, height, radius) ==
    strokeRoundRect(s, x, y, width, height, radius, TRUE)

strokeLine(s, startX, startY, endX, endY) ==
    IF FullyTransparent(s) THEN s
    ELSE LET c == getContext(s)
             s1 == CtxBeginPath(s, c)
             s2 == CtxPath(s1, c, "moveTo", <<startX, startY>>)
             s3 == CtxPath(s2, c, "lineTo", <<endX, endY>>)
         IN  CtxPaint(s3, c, "stroke", <<>>)

fillLine(s, startX, startY, endX, endY) == strokeLine(s, startX, startY, endX, endY)

(* antiClockwise || false, with false = 0 and true = 1 *)
OrFalse(b) == IF b = undefined THEN 0 ELSE b

strokeArc(s, x, y, radius, start, end, antiClockwise, fill) ==
    IF FullyTransparent(s) THEN s
    ELSE LET c == getContext(s)
             s1 == CtxTranslate(s, c, x, y)
             s2 == CtxBeginPath(s1, c)
             s3 == CtxPath(s2, c, "arc", <<0, 0, radius, start, end, OrFalse(antiClockwise)>>)
             s4 == CtxPaint(s3, c, IF fill = TRUE THEN "fill" ELSE "stroke", <<>>)
         IN  CtxTranslate(s4, c, 0 - x, 0 - y)

fillArc(s, x, y, radius, start, end, antiClockwise) ==
    strokeArc(s, x, y, radius, start, end, OrFalse(antiClockwise), TRUE)

(* the control-point offset 0.551784, as KappaNum / KappaDen; the arguments of *)
(* the ellipse's path calls are logged in units of 1 / KappaDen               *)
KappaNum == 551784
KappaDen == 1000 * 1000

(* the four Bezier segments of an ellipse centred at (x, y) with radii (hw, hh), *)
(* traced into the current path of context c                                    *)
EllipsePath(s, c, x, y, hw, hh) ==
    LET K == KappaDen
        lx == (x - hw) * K
        rx == (x + hw) * K
        ty == (y - hh) * K
        by == (y + hh) * K
        xmagic == hw * KappaNum
        ymagic == hh * KappaNum
        xmin == x * K - xmagic
        xmax == x * K + xmagic
        ymin == y * K - ymagic
        ymax == y * K + ymagic
        s1 == CtxPath(s, c, "moveTo", <<x * K, ty>>)
        s2 == CtxPath(s1, c, "bezierCurveTo", <<xmax, ty, rx, ymin, rx, y * K>>)
        s3 == CtxPath(s2, c, "bezierCurveTo", <<rx, ymax, xmax, by, x * K, by>>)
        s4 == CtxPath(s3, c, "bezierCurveTo", <<xmin, by, lx, ymax, lx, y * K>>)
    IN  CtxPath(s4, c, "bezierCurveTo", <<lx, ymin, xmin, ty, x * K, ty>>)

strokeEllipse(s, x, y, w, h, fill) ==
    IF FullyTransparent(s) THEN s
    ELSE LET c == getContext(s)
             s1 == CtxBeginPath(s, c)
             s2 == EllipsePath(s1, c, x, y, w, h)
             s3 == CtxPaint(s2, c, IF fill = TRUE THEN "fill" ELSE "stroke", <<>>)
         IN  CtxClosePath(s3, c)

(* a plausible slip: the fill flag left out *)
fillEllipse_noFlag(s, x, y, w, h) == strokeEllipse(s, x, y, w, h, FALSE)

fillEllipse(s, x, y, w, h) == strokeEllipse(s, x, y, w, h, TRUE)

(* context.lineTo for points[i..], offset by (ox, oy) *)
RECURSIVE LineToAll(_, _, _, _, _, _)
LineToAll(s, c, points, i, ox, oy) ==
    IF i > Len(points) THEN s
    ELSE LineToAll(CtxPath(s, c, "lineTo", <<ox + points[i].x, oy + points[i].y>>),
                   c, points, i + 1, ox, oy)

strokePolygon(s, poly, fill) ==
    IF FullyTransparent(s) THEN s
    ELSE LET c == getContext(s)
             s1 == translate(s, poly.pos.x, poly.pos.y)
             s2 == CtxBeginPath(s1, c)
             s3 == CtxPath(s2, c, "moveTo", <<poly.points[1].x, poly.points[1].y>>)
             s4 == LineToAll(s3, c, poly.points, 2, 0, 0)
             s5 == CtxPath(s4, c, "lineTo", <<poly.points[1].x, poly.points[1].y>>)
             s6 == CtxPaint(s5, c, IF fill = TRUE THEN "fill" ELSE "stroke", <<>>)
             s7 == CtxClosePath(s6, c)
         IN  translate(s7, 0 - poly.pos.x, 0 - poly.pos.y)

fillPolygon(s, poly) == strokePolygon(s, poly, TRUE)

(* Renderer.setTint (video/renderer.js): the active tint *)
setTint(s, tint) == [s EXCEPT !.rn.currentTint = tint]

(* this.cache.tint(image, tint): the tinted variant of an image, as a source id *)
Tinted(image) == 0 - image.id

(* a plausible slip: the five-argument form keeps (dw, dh) as the source size *)
drawImage_keepsSourceSize(s, image, sx, sy, sw, sh, dx, dy, dw, dh) ==
    IF FullyTransparent(s) THEN s
    ELSE LET a == IF sw = undefined
                  THEN [sx |-> 0, sy |-> 0, sw |-> image.width, sh |-> image.height,
                        dx |-> sx, dy |-> sy, dw |-> image.width, dh |-> image.height]
                  ELSE IF dx = undefined
                  THEN [sx |-> 0, sy |-> 0, sw |-> sw, sh |-> sh,
                        dx |-> sx, dy |-> sy, dw |-> sw, dh |-> sh]
                  ELSE [sx |-> sx, sy |-> sy, sw |-> sw, sh |-> sh,
                        dx |-> dx, dy |-> dy, dw |-> dw, dh |-> dh]
             ddx == IF settings.subPixel = FALSE THEN Trunc(a.dx) ELSE a.dx
             ddy == IF settings.subPixel = FALSE THEN Trunc(a.dy) ELSE a.dy
             source == IF s.rn.currentTint # "white" THEN Tinted(image) ELSE image.id
         IN  CtxPaint(s, getContext(s), "drawImage",
                      <<source, a.sx, a.sy, a.sw, a.sh, ddx, ddy, a.dw, a.dh>>)

drawImage(s, image, sx, sy, sw, sh, dx, dy, dw, dh) ==
    IF FullyTransparent(s) THEN s
    ELSE LET a == IF sw = undefined
                  THEN [sx |-> 0, sy |-> 0, sw |-> image.width, sh |-> image.height,
                        dx |-> sx, dy |-> sy, dw |-> image.width, dh |-> image.height]
                  ELSE IF dx = undefined
                  THEN [sx |-> 0, sy |-> 0, sw |-> image.width, sh |-> image.height,
                        dx |-> sx, dy |-> sy, dw |-> sw, dh |-> sh]
                  ELSE [sx |-> sx, sy |-> sy, sw |-> sw, sh |-> sh,
                        dx |-> dx, dy |-> dy, dw |-> dw, dh |-> dh]
             ddx == IF settings.subPixel = FALSE THEN Trunc(a.dx) ELSE a.dx
             ddy == IF settings.subPixel = FALSE THEN Trunc(a.dy) ELSE a.dy
             source == IF s.rn.currentTint # "white" THEN Tinted(image) ELSE image.id
         IN  CtxPaint(s, getContext(s), "drawImage",
                      <<source, a.sx, a.sy, a.sw, a.sh, ddx, ddy, a.dw, a.dh>>)

(* a plausible slip: the pattern left as the fill style *)
drawPattern_leaks(s, pattern, x, y, width, height) ==
    IF FullyTransparent(s) THEN s
    ELSE LET c == getContext(s)
             s1 == CtxSetFillStyle(s, c, pattern)
         IN  CtxPaint(s1, c, "fillRect", <<x, y, width, height>>)

drawPattern(s, pattern, x, y, width, height) ==
    IF FullyTransparent(s) THEN s
    ELSE LET c == getContext(s)
             fillStyle == s.sf[c].fillStyle
             s1 == CtxSetFillStyle(s, c, pattern)
             s2 == CtxPaint(s1, c, "fillRect", <<x, y, width, height>>)
         IN  CtxSetFillStyle(s2, c, fillStyle)

clearColor(s, color, opaque) ==
    LET c == s.rn.backBufferContext2D
        s1 == save(s)
        s2 == resetTransform(s1)
        s3 == CtxSetComposite(s2, c, IF opaque = TRUE THEN "copy" ELSE "source-over")
        s4 == CtxSetFillStyle(s3, c, color)
        s5 == fillRect(s4, 0, 0, Canvas.width, Canvas.height)
    IN  restore(s5)

clear(s) ==
    IF settings.transparent THEN clearColor(s, "rgba(0,0,0,0)", TRUE) ELSE s

---------------------------------------------------------------------------
(* CanvasRenderer: the mask stack *)

(* `Rect` is used by setMask (line 748) but the module neither imports nor   *)
(* declares it (lines 1-7): evaluating `mask instanceof Rect` is a           *)
(* ReferenceError                                                            *)
RectIsBound == FALSE

throw(s, e) == [s EXCEPT !.err = e]

(* the branch of setMask's if-chain that traces a shape of the given kind *)
ShapeTrace(s, c, mask) ==
    IF mask.kind = "RoundRect"
    THEN CtxPath(s, c, "roundRect",
                 <<mask.top, mask.left, mask.width, mask.height, mask.radius>>)
    ELSE IF mask.kind \in {"Rect", "Bounds"}
    THEN CtxPath(s, c, "rect", <<mask.top, mask.left, mask.width, mask.height>>)
    ELSE IF mask.kind = "Ellipse"
    THEN EllipsePath(s, c, mask.pos.x, mask.pos.y, mask.radiusV.x, mask.radiusV.y)
    ELSE LET s1 == CtxPath(s, c, "moveTo", <<mask.pos.x + mask.points[1].x,
                                             mask.pos.y + mask.points[1].y>>)
         IN  LineToAll(s1, c, mask.points, 2, mask.pos.x, mask.pos.y)

(* the if-chain as it is evaluated: the test after `instanceof RoundRect` *)
(* reads the unbound name Rect                                            *)
TraceMask(s, c, mask) ==
    IF mask.kind # "RoundRect" /\ ~RectIsBound
    THEN throw(s, "ReferenceError")
    ELSE ShapeTrace(s, c, mask)

(* a plausible slip: the surface state saved on every push *)
setMask_saveEveryPush(s, mask, invert) ==
    LET c == getContext(s)
        s0 == CtxSave(s, c)
        s1 == IF s.rn.maskLevel = 0 THEN CtxBeginPath(s0, c) ELSE TraceMask(s0, c, mask)
        s2 == [s1 EXCEPT !.rn.maskLevel = @ + 1]
    IN  IF s1.err # "none" THEN [s EXCEPT !.err = s1.err]
        ELSE IF invert = TRUE
        THEN CtxPaint(CtxSetComposite(CtxClosePath(s2, c), c, "destination-atop"),
                      c, "fill", <<>>)
        ELSE CtxClip(s2, c)

setMask(s, mask, invert) ==
    LET c == getContext(s)
        s1 == IF s.rn.maskLevel = 0
              THEN CtxBeginPath(CtxSave(s, c), c)
              ELSE TraceMask(s, c, mask)
        s2 == [s1 EXCEPT !.rn.maskLevel = @ + 1]
    IN  IF s1.err # "none" THEN s1
        ELSE IF invert = TRUE
        THEN CtxPaint(CtxSetComposite(CtxClosePath(s2, c),
                                      c, "destination-atop"),
                      c, "fill", <<>>)
        ELSE CtxClip(s2, c)

(* a plausible slip: the nesting level reset without the restore *)
clearMask_noRestore(s) ==
    IF s.rn.maskLevel > 0 THEN [s EXCEPT !.rn.maskLevel = 0] ELSE s

clearMask(s) ==
    IF s.rn.maskLevel > 0
    THEN CtxRestore([s EXCEPT !.rn.maskLevel = 0], getContext(s))
    ELSE s

---------------------------------------------------------------------------
(* Construction *)

(* the fields the Renderer base class initialises (video/renderer.js) *)
RendererFields ==
    [maskLevel |-> 0, currentBlendMode |-> "normal",
     currentScissor |-> <<0, 0, Canvas.width, Canvas.height>>,
     alphaCache |-> AlphaScale, currentTint |-> "white", isContextValid |-> TRUE]

(* this.currentColor, as its toRGBA() string *)
CurrentColor == "rgba(0,0,0,1)"

constructor(options) ==
    LET base == [rn |-> [context |-> "front",
                         backBufferContext2D |->
                             IF options.doubleBuffering THEN "back" ELSE "front",
                         maskLevel |-> RendererFields.maskLevel,
                         currentBlendMode |-> RendererFields.currentBlendMode,
                         currentScissor |-> RendererFields.currentScissor,
                         alphaCache |-> RendererFields.alphaCache,
                         currentTint |-> RendererFields.currentTint,
                         isContextValid |-> RendererFields.isContextValid],
                 sf |-> [c \in SurfIds |-> NewContext],
                 log |-> <<>>, err |-> "none"]
    IN  setColor(setBlendMode(base, options.blendMode, "undefined"), CurrentColor)

---------------------------------------------------------------------------
(* GLShader: the tables *)

ShaderIds == {1, 2}

(* names a caller may ask for; "aNormal" and "uMissing" are in no shader *)
AttrNames == {"aVertex", "aColor", "aRegion", "aNormal"}
UniNames == {"uColor", "uMatrix", "uMissing"}

(* a JavaScript value: a number, a Float32Array, an object with toArray() *)
(* (Matrix2d, Color, Vector2d), null or undefined                         *)
Val(kind, v) == [kind |-> kind, v |-> v]
Undef == Val("undefined", 0)

(* value.toArray(): the flat array of a matrix, colour or vector *)
toArray(value) == Val("array", value.v)

(* typeof value === "object" *)
IsObject(value) == value.kind \in {"null", "array", "matrix"}

(* a table field of the shader: an object keyed by name, or null *)
Table(tab) == [null |-> FALSE, tab |-> tab]
NullTable(tab) == [null |-> TRUE, tab |-> tab]

NoLocations == [n \in AttrNames |-> undefined]
NoValues == [n \in UniNames |-> Undef]

(* the shader sources: the attributes each declares, in order, and its uniforms *)
Sources == {"basic", "quad", "broken"}

Declared(src) ==
    IF src = "basic" THEN <<"aColor", "aVertex">>
    ELSE IF src = "quad" THEN <<"aVertex", "aRegion", "aColor">>
    ELSE <<>>

Active(src) ==
    IF src = "basic" THEN {"uColor"}
    ELSE IF src = "quad" THEN {"uColor", "uMatrix"}
    ELSE {}

(* compileProgram (utils/program.js) throws when the pair does not compile or link *)
Compiles(src) == src # "broken"

(* extractAttributes (utils/attributes.js): name -> location, in declaration order *)
extractAttributes(src) ==
    [n \in AttrNames |->
        IF \E i \in DOMAIN Declared(src) : Declared(src)[i] = n
        THEN (CHOOSE i \in DOMAIN Declared(src) : Declared(src)[i] = n) - 1
        ELSE undefined]

(* extractUniforms (utils/uniforms.js): name -> default value *)
extractUniforms(src) ==
    [n \in UniNames |-> IF n \in Active(src) THEN Val("number", 0) ELSE Undef]

NoShader ==
    [made |-> FALSE, attributes |-> NullTable(NoLocations), uniforms |-> NullTable(NoValues),
     program |-> 0, vertex |-> "null", fragment |-> "null"]

NewGL == [program |-> 0, deleted |-> {}]

---------------------------------------------------------------------------
(* The event bus (system/event.js) *)

(* event.on(ONCONTEXT_LOST, handler, owner): the owner joins the subscribers *)
on(s, id) == [s EXCEPT !.subs = Append(@, id)]

---------------------------------------------------------------------------
(* GLShader: the methods *)

GLShader_noSubscribe(s, id, src) ==
    IF ~Compiles(src) THEN throw(s, "Error")
    ELSE [s EXCEPT !.sh[id] =
              [made |-> TRUE, attributes |-> Table(extractAttributes(src)),
               uniforms |-> Table(extractUniforms(src)),
               program |-> id, vertex |-> src, fragment |-> src]]

(* new GLShader(gl, vertex, fragment): the object `id` *)
GLShader(s, id, src) ==
    IF ~Compiles(src) THEN throw(s, "Error")
    ELSE on([s EXCEPT !.sh[id] =
                 [made |-> TRUE, attributes |-> Table(extractAttributes(src)),
                  uniforms |-> Table(extractUniforms(src)),
                  program |-> id, vertex |-> src, fragment |-> src]], id)

(* gl.useProgram: a deleted program is refused with a GL error, not an exception *)
bind(s, id) ==
    LET p == s.sh[id].program
        s1 == CtxCall(s, "gl", "useProgram", <<p>>)
    IN  IF p \in s.gl.deleted THEN s1 ELSE [s1 EXCEPT !.gl.program = p]

getAttribLocation_falsy(s, id, name) ==
    LET attributes == s.sh[id].attributes
    IN  IF attributes.null THEN throw(s, "TypeError")
        ELSE [s EXCEPT !.ret = IF attributes.tab[name] # undefined /\ attributes.tab[name] # 0
                                THEN attributes.tab[name] ELSE 0 - 1]

(* this.attributes[name] on a null table is a TypeError *)
getAttribLocation(s, id, name) ==
    LET attributes == s.sh[id].attributes
    IN  IF attributes.null THEN throw(s, "TypeError")
        ELSE [s EXCEPT !.ret = IF attributes.tab[name] # undefined
                                THEN attributes.tab[name] ELSE 0 - 1]

setUniform(s, id, name, value) ==
    LET uniforms == s.sh[id].uniforms
    IN  IF uniforms.null THEN throw(s, "TypeError")
        ELSE IF uniforms.tab[name].kind # "undefined"
        THEN IF IsObject(value)
             THEN IF value.kind = "null" THEN throw(s, "TypeError")
                  ELSE IF value.kind = "matrix"
                  THEN [s EXCEPT !.sh[id].uniforms.tab[name] = toArray(value)]
                  ELSE [s EXCEPT !.sh[id].uniforms.tab[name] = value]
             ELSE [s EXCEPT !.sh[id].uniforms.tab[name] = value]
        ELSE throw(s, "Error")

(* the loop of setVertexAttributes from the descriptor at position i (index i - 1) *)
RECURSIVE VertexAttribute(_, _, _, _, _)
VertexAttribute(s, id, attributes, vertexByteSize, i) ==
    IF i > Len(attributes) THEN s
    ELSE LET element == attributes[i]
             q == getAttribLocation(s, id, element.name)
             location == q.ret
             s1 == [q EXCEPT !.ret = undefined]
             s2 == IF location # 0 - 1
                   THEN CtxCall(CtxCall(s1, "gl", "enableVertexAttribArray", <<location>>),
                                "gl", "vertexAttribPointer",
                                <<location, element.size, element.type, element.normalized,
                                  vertexByteSize, element.offset>>)
                   ELSE CtxCall(s1, "gl", "disableVertexAttribArray", <<i - 1>>)
         IN  IF q.err # "none" THEN q
             ELSE VertexAttribute(s2, id, attributes, vertexByteSize, i + 1)

setVertexAttributes(s, id, attributes, vertexByteSize) ==
    VertexAttribute(s, id, attributes, vertexByteSize, 1)

destroy(s, id) ==
    LET p == s.sh[id].program
        s1 == [s EXCEPT !.sh[id].uniforms = NullTable(NoValues),
                        !.sh[id].attributes = NullTable(NoLocations)]
    IN  [CtxCall(s1, "gl", "deleteProgram", <<p>>) EXCEPT
            !.gl.deleted = @ \cup {p},
            !.sh[id].vertex = "null", !.sh[id].fragment = "null"]

---------------------------------------------------------------------------
(* The event bus: emit, and the handlers of the canvas's device signals *)

RECURSIVE Notify(_, _, _)
Notify(s, q, i) ==
    IF i > Len(q) THEN s ELSE Notify(destroy(s, q[i]), q, i + 1)

(* event.emit(kind, renderer): the notification, then every subscriber's handler; *)
(* only ONCONTEXT_LOST has subscribers (GLShader.destroy)                         *)
emit(s, kind) ==
    LET s1 == CtxCall(s, "event", kind, <<>>)
    IN  IF kind = "ONCONTEXT_LOST" THEN Notify(s1, s1.subs, 1) ELSE s1

(* canvas_renderer.js uses `event` (lines 64, 69) but never imports it (lines 1-7): *)
(* the name resolves to the host's global, if any, which has no emit               *)
EventIsBound == FALSE

(* what calling event.emit throws: a TypeError where the host defines a global *)
(* `event` (window.event), a ReferenceError elsewhere                          *)
Hosts == {"window", "worker"}
Unbound(host) == IF host = "window" THEN "TypeError" ELSE "ReferenceError"

(* the "contextlost" listener *)
onContextLost(s, host) ==
    LET s1 == CtxCall(s, "e", "preventDefault", <<>>)
        s2 == [s1 EXCEPT !.rn.isContextValid = FALSE]
    IN  IF EventIsBound THEN emit(s2, "ONCONTEXT_LOST") ELSE throw(s2, Unbound(host))

(* the "contextrestored" listener *)
onContextRestored(s, host) ==
    LET s1 == [s EXCEPT !.rn.isContextValid = TRUE]
    IN  IF EventIsBound THEN emit(s1, "ONCONTEXT_RESTORED") ELSE throw(s1, Unbound(host))

---------------------------------------------------------------------------
(* Inputs *)

Options ==
    [doubleBuffering : BOOLEAN, transparent : BOOLEAN, subPixel : BOOLEAN,
     blendMode : {"undefined", "multiply"}]

Alphas == {0, 1, 2, AlphaScale}
Modes == {"undefined", "normal", "multiply", "additive", "lighter", "screen", "overlay"}
Colors == {"rgba(0,0,0,1)", "#ff0000"}
Shifts == {<<3, 0 - 3>>, <<0 - 3, 3>>, <<1, 0 - 1>>, <<0 - 1, 1>>}
FullRect == <<0, 0, Canvas.width, Canvas.height>>
Rects == {FullRect, <<Px(1), Px(1), Px(2), Px(2)>>, <<0, 0, Px(2), Px(2)>>}
DrawRects == {<<Px(1), Px(1), Px(2), Px(2)>>, <<0 - 3, 1, Px(1), Px(1)>>}

Pt(x, y) == [x |-> x, y |-> y]
Triangle == <<Pt(0, 0), Pt(Px(2), 0), Pt(0, Px(2))>>

(* a shape of the geometries package: Rect, RoundRect, Bounds, Ellipse, Polygon *)
Shape(kind) ==
    [kind |-> kind, top |-> Px(1), left |-> Px(1), width |-> Px(2), height |-> Px(2),
     radius |-> IF kind = "RoundRect" THEN Px(1) ELSE 0,
     pos |-> IF kind \in {"Ellipse", "Polygon"} THEN Pt(3, 0 - 3) ELSE Pt(Px(1), Px(1)),
     radiusV |-> IF kind = "Ellipse" THEN Pt(Px(1), Px(2)) ELSE Pt(0, 0),
     points |-> IF kind = "Polygon" THEN Triangle
                ELSE IF kind = "Ellipse" THEN <<>>
                ELSE <<Pt(0, 0), Pt(Px(2), 0), Pt(Px(2), Px(2)), Pt(0, Px(2))>>]
ShapeKinds == {"Rect", "RoundRect", "Bounds", "Ellipse", "Polygon"}

Images == {[id |-> 1, width |-> Px(32), height |-> Px(16)]}

---------------------------------------------------------------------------
(* History of the mask run: what the claims about setMask / clearMask compare *)

CountFn(log, f) == Cardinality({i \in DOMAIN log : log[i].fn = f})

NoRun ==
    [pushes |-> 0, n |-> 0, active |-> FALSE, pure |-> FALSE, depth0 |-> 0, saves |-> 0,
     snap |-> Frame(NewContext), intact |-> FALSE, ended |-> FALSE, balanced |-> FALSE,
     changed |-> FALSE]

BackOf(rn, sf) == sf[rn.backBufferContext2D]

NextHist(op, s) ==
    LET pre == BackOf(renderer, surf)
        post == BackOf(s.rn, s.sf)
    IN  IF op.name = "setMask"
        THEN IF renderer.maskLevel = 0
             THEN [pushes |-> hist.pushes + 1, n |-> 1, active |-> TRUE, pure |-> TRUE,
                   depth0 |-> Len(pre.stack), saves |-> CountFn(s.log, "save"),
                   snap |-> Frame(pre), intact |-> TRUE, ended |-> FALSE,
                   balanced |-> FALSE, changed |-> FALSE]
             ELSE [hist EXCEPT !.pushes = @ + 1, !.n = @ + 1,
                               !.saves = @ + CountFn(s.log, "save"),
                               !.intact = (@ /\ Len(post.stack) >= hist.depth0 + 1),
                               !.ended = FALSE]
        ELSE IF op.name = "clearMask"
        THEN [hist EXCEPT !.pushes = 0, !.active = FALSE,
                          !.ended = (renderer.maskLevel > 0),
                          !.balanced = (hist.active /\ hist.intact
                                        /\ Len(pre.stack) = hist.depth0 + 1),
                          !.changed = (Frame(pre) # hist.snap)]
        ELSE IF hist.active
        THEN [hist EXCEPT !.pure = FALSE, !.ended = FALSE,
                          !.intact = (@ /\ Len(post.stack) >= hist.depth0 + 1)]
        ELSE [NoRun EXCEPT !.pushes = hist.pushes]

---------------------------------------------------------------------------
(* The state machine: one action per public method *)

Cur ==
    [rn |-> renderer, sf |-> surf, log |-> <<>>, err |-> "none",
     sh |-> shaders, gl |-> gl, subs |-> subs, ret |-> undefined]

Op(name, args) == [name |-> name, args |-> args]

InBounds(s) ==
    LET b == BackOf(s.rn, s.sf)
    IN  /\ Len(b.stack) <= MaxStack
        /\ b.tx <= Px(MaxShift) /\ 0 - b.tx <= Px(MaxShift)
        /\ b.ty <= Px(MaxShift) /\ 0 - b.ty <= Px(MaxShift)

Step(s, op) ==
    /\ InBounds(s)
    /\ renderer' = s.rn
    /\ surf' = s.sf
    /\ calls' = s.log
    /\ thrown' = s.err
    /\ lastOp' = op
    /\ hist' = NextHist(op, s)
    /\ shaders' = s.sh
    /\ gl' = s.gl
    /\ subs' = s.subs
    /\ returned' = s.ret
    /\ UNCHANGED settings

InitWith(options) ==
    /\ settings \in options
    /\ LET s == constructor(settings)
       IN  /\ renderer = s.rn
           /\ surf = s.sf
    /\ calls = <<>>
    /\ thrown = "none"
    /\ lastOp = Op("constructor", <<>>)
    /\ hist = NoRun
    /\ shaders = [id \in ShaderIds |-> NoShader]
    /\ gl = NewGL
    /\ subs = <<>>
    /\ returned = undefined

Init == InitWith(Options)

Save == Step(save(Cur), Op("save", <<>>))

(* the restore's record keeps the cached scissor and alpha it found *)
Restore == Step(restore(Cur), Op("restore", <<renderer.currentScissor, renderer.alphaCache>>))

SetGlobalAlpha(A) ==
    \E a \in A : Step(setGlobalAlpha(Cur, a), Op("setGlobalAlpha", <<a>>))

SetBlendMode(M) ==
    \E m \in M :
        Step(setBlendMode(Cur, m, "undefined"), Op("setBlendMode", <<m, "undefined">>))

SetBlendModeOn(M) ==
    \E m \in M, c \in SurfIds :
        /\ c = "back" => settings.doubleBuffering
        /\ Step(setBlendMode(Cur, m, c), Op("setBlendMode", <<m, c>>))

SetColor == \E c \in Colors : Step(setColor(Cur, c), Op("setColor", <<c>>))

Translate == \E d \in Shifts : Step(translate(Cur, d[1], d[2]), Op("translate", d))

ResetTransform == Step(resetTransform(Cur), Op("resetTransform", <<>>))

(* a Matrix2d that translates by d *)
Translation(d) == <<1, 0, 0, 0, 1, 0, d[1], d[2], 1>>

Transform == \E d \in Shifts : Step(transform(Cur, Translation(d)), Op("transform", d))

ClipRect ==
    \E r \in Rects : Step(clipRect(Cur, r[1], r[2], r[3], r[4]), Op("clipRect", r))

SetMask ==
    \E k \in ShapeKinds, invert \in BOOLEAN :
        /\ hist.pushes < MaxMask
        /\ Step(setMask(Cur, Shape(k), invert), Op("setMask", <<Shape(k), invert>>))

ClearMask == Step(clearMask(Cur), Op("clearMask", <<>>))

Flush == Step(flush(Cur), Op("flush", <<>>))

ClearColor(C) ==
    \E c \in C, opaque \in BOOLEAN :
        Step(clearColor(Cur, c, opaque), Op("clearColor", <<c, opaque>>))

Clear == Step(clear(Cur), Op("clear", <<>>))

StrokeRect(R) ==
    \E r \in R, fill \in BOOLEAN :
        Step(strokeRect(Cur, r[1], r[2], r[3], r[4], fill), Op("strokeRect", <<r, fill>>))

FillRect(R) ==
    \E r \in R : Step(fillRect(Cur, r[1], r[2], r[3], r[4]), Op("fillRect", <<r>>))

StrokeRoundRect ==
    \E r \in DrawRects, fill \in BOOLEAN :
        Step(strokeRoundRect(Cur, r[1], r[2], r[3], r[4], Px(1), fill),
             Op("strokeRoundRect", <<r, Px(1), fill>>))

FillRoundRect ==
    \E r \in DrawRects :
        Step(fillRoundRect(Cur, r[1], r[2], r[3], r[4], Px(1)), Op("fillRoundRect", <<r, Px(1)>>))

StrokeLine ==
    \E r \in DrawRects : Step(strokeLine(Cur, r[1], r[2], r[3], r[4]), Op("strokeLine", <<r>>))

FillLine ==
    \E r \in DrawRects : Step(fillLine(Cur, r[1], r[2], r[3], r[4]), Op("fillLine", <<r>>))

(* x, y, radius, start, end; angles in units of pi / 2 *)
Arcs == {<<Px(1), Px(1), Px(1), 0, 4>>, <<0 - 3, 3, Px(1), 1, 2>>}
Flags == {undefined, 0, 1}

StrokeArc ==
    \E a \in Arcs, acw \in Flags, fill \in BOOLEAN :
        Step(strokeArc(Cur, a[1], a[2], a[3], a[4], a[5], acw, fill),
             Op("strokeArc", <<a, acw, fill>>))

FillArc ==
    \E a \in Arcs, acw \in Flags :
        Step(fillArc(Cur, a[1], a[2], a[3], a[4], a[5], acw), Op("fillArc", <<a, acw>>))

StrokeEllipse ==
    \E r \in DrawRects, fill \in BOOLEAN :
        Step(strokeEllipse(Cur, r[1], r[2], r[3], r[4], fill), Op("strokeEllipse", <<r, fill>>))

FillEllipse ==
    \E r \in DrawRects :
        Step(fillEllipse(Cur, r[1], r[2], r[3], r[4]), Op("fillEllipse", <<r>>))

Polygons == {Shape("Polygon"), Shape("Rect")}

StrokePolygon ==
    \E poly \in Polygons, fill \in BOOLEAN :
        Step(strokePolygon(Cur, poly, fill), Op("strokePolygon", <<poly, fill>>))

FillPolygon ==
    \E poly \in Polygons : Step(fillPolygon(Cur, poly), Op("fillPolygon", <<poly>>))

Positions == {<<3, 0 - 3>>, <<Px(1), Px(2)>>}

(* drawImage(image, dx, dy) *)
DrawImage3 ==
    \E image \in Images, d \in Positions :
        Step(drawImage(Cur, image, d[1], d[2], undefined, undefined,
                       undefined, undefined, undefined, undefined),
             Op("drawImage", <<image, d[1], d[2]>>))

(* drawImage(image, dx, dy, dw, dh) *)
DrawImage5 ==
    \E image \in Images, d \in Positions :
        Step(drawImage(Cur, image, d[1], d[2], Px(8), Px(4),
                       undefined, undefined, undefined, undefined),
             Op("drawImage", <<image, d[1], d[2], Px(8), Px(4)>>))

(* drawImage(image, sx, sy, sw, sh, dx, dy, dw, dh) *)
DrawImage9 ==
    \E image \in Images, d \in Positions :
        Step(drawImage(Cur, image, Px(1), Px(1), Px(8), Px(8), d[1], d[2], Px(8), Px(4)),
             Op("drawImage", <<image, Px(1), Px(1), Px(8), Px(8), d[1], d[2], Px(8), Px(4)>>))

DrawPattern ==
    \E r \in DrawRects :
        Step(drawPattern(Cur, "pattern", r[1], r[2], r[3], r[4]), Op("drawPattern", <<r>>))

SetTint == \E tint \in {"white", "red"} : Step(setTint(Cur, tint), Op("setTint", <<tint>>))

---------------------------------------------------------------------------
(* GLShader and the context-loss protocol: the actions *)

Values == {Val("number", 1), Val("array", 1), Val("matrix", 1), Val("null", 0), Undef}

(* a vertex attribute descriptor; type is the GL enum (FLOAT, UNSIGNED_BYTE) *)
Descriptor(name, size, type, normalized, offset) ==
    [name |-> name, size |-> size, type |-> type, normalized |-> normalized, offset |-> offset]

Layouts ==
    {<<Descriptor("aVertex", 2, 5126, 0, 0), Descriptor("aRegion", 2, 5126, 0, 8),
       Descriptor("aColor", 4, 5121, 1, 16)>>,
     <<Descriptor("aNormal", 3, 5126, 0, 0), Descriptor("aColor", 4, 5121, 1, 12)>>}

Strides == {20}

NewShader ==
    \E id \in ShaderIds, src \in Sources :
        /\ ~shaders[id].made
        /\ Step(GLShader(Cur, id, src), Op("GLShader", <<id, src>>))

Bind ==
    \E id \in ShaderIds :
        /\ shaders[id].made
        /\ Step(bind(Cur, id), Op("bind", <<id>>))

GetAttribLocation ==
    \E id \in ShaderIds, name \in AttrNames :
        /\ shaders[id].made
        /\ Step(getAttribLocation(Cur, id, name), Op("getAttribLocation", <<id, name>>))

SetUniform ==
    \E id \in ShaderIds, name \in UniNames, value \in Values :
        /\ shaders[id].made
        /\ Step(setUniform(Cur, id, name, value), Op("setUniform", <<id, name, value>>))

SetVertexAttributes ==
    \E id \in ShaderIds, attributes \in Layouts, vertexByteSize \in Strides :
        /\ shaders[id].made
        /\ Step(setVertexAttributes(Cur, id, attributes, vertexByteSize),
                Op("setVertexAttributes", <<id, attributes, vertexByteSize>>))

Destroy ==
    \E id \in ShaderIds :
        /\ shaders[id].made
        /\ Step(destroy(Cur, id), Op("destroy", <<id>>))

(* destroy() by a caller that checks the destroyed state first *)
DestroyLive ==
    \E id \in ShaderIds :
        /\ shaders[id].made
        /\ ~shaders[id].attributes.null
        /\ Step(destroy(Cur, id), Op("destroy", <<id>>))

(* a backend whose module imports the event bus emits the notification *)
EmitContextLost == Step(emit(Cur, "ONCONTEXT_LOST"), Op("emit", <<"ONCONTEXT_LOST">>))

EmitContextRestored == Step(emit(Cur, "ONCONTEXT_RESTORED"), Op("emit", <<"ONCONTEXT_RESTORED">>))

(* the device fires "contextlost" on the screen canvas *)
ContextLost ==
    \E host \in Hosts : Step(onContextLost(Cur, host), Op("contextlost", <<host>>))

(* the device fires "contextrestored" on the screen canvas *)
ContextRestored ==
    \E host \in Hosts : Step(onContextRestored(Cur, host), Op("contextrestored", <<host>>))

---------------------------------------------------------------------------
(* Specifications *)

(* the mask stack among the state operations it interacts with *)
MaskOptions == {o \in Options : o.blendMode = "undefined" /\ ~o.transparent /\ ~o.subPixel}

NextMask ==
    \/ SetMask
    \/ ClearMask
    \/ Save
    \/ Restore
    \/ FillRect({FullRect})

SpecMask == InitWith(MaskOptions) /\ [][NextMask]_vars

\* The mask stack together with the state a save() frame captures.
NextMaskState ==
    \/ SetMask
    \/ ClearMask
    \/ Save
    \/ Restore
    \/ SetGlobalAlpha({1})
    \/ SetBlendMode({"multiply"})
    \/ FillRect({FullRect})

SpecMaskState == InitWith(MaskOptions) /\ [][NextMaskState]_vars

(* the drawing primitives under every global alpha around the 1/255 threshold *)
DrawOptions == {o \in Options : o.blendMode = "undefined" /\ ~o.transparent}

NextDraw ==
    \/ SetGlobalAlpha(Alphas)
    \/ SetTint
    \/ StrokeRect(DrawRects)
    \/ FillRect(DrawRects)
    \/ StrokeRoundRect
    \/ FillRoundRect
    \/ StrokeLine
    \/ FillLine
    \/ StrokeArc
    \/ FillArc
    \/ StrokeEllipse
    \/ FillEllipse
    \/ StrokePolygon
    \/ FillPolygon
    \/ DrawImage3
    \/ DrawImage5
    \/ DrawImage9
    \/ DrawPattern

SpecDraw == InitWith(DrawOptions) /\ [][NextDraw]_vars

(* blend modes, on every context, among the operations that set a composite operation *)
NextBlend ==
    \/ SetBlendMode(Modes)
    \/ SetBlendModeOn({"multiply", "overlay"})
    \/ Flush
    \/ Clear
    \/ ClearColor({"#ff0000"})
    \/ Save
    \/ Restore

SpecBlend == InitWith(Options) /\ [][NextBlend]_vars

(* the cached scissor and the cached alpha *)
AlphasAny == {1, AlphaScale, 2 * AlphaScale}
ClipOptions == {o \in Options : o.blendMode = "undefined" /\ ~o.subPixel}

NextClip ==
    \/ ClipRect
    \/ Save
    \/ Restore
    \/ SetGlobalAlpha(AlphasAny)
    \/ FillRect({FullRect})

SpecClip == InitWith(ClipOptions) /\ [][NextClip]_vars

(* the shader objects over their whole life, with the notifications of the bus *)
ShaderOptions ==
    {o \in Options : o.blendMode = "undefined" /\ ~o.transparent /\ ~o.subPixel
                     /\ o.doubleBuffering}

NextShader ==
    \/ NewShader
    \/ Bind
    \/ GetAttribLocation
    \/ SetUniform
    \/ SetVertexAttributes
    \/ Destroy
    \/ EmitContextLost
    \/ EmitContextRestored

SpecShader == InitWith(ShaderOptions) /\ [][NextShader]_vars

(* the GPU program from compilation to release, under callers that never *)
(* destroy a destroyed shader                                            *)
NextRelease ==
    \/ NewShader
    \/ Bind
    \/ DestroyLive
    \/ EmitContextLost
    \/ EmitContextRestored

SpecRelease == InitWith(ShaderOptions) /\ [][NextRelease]_vars

(* the canvas's device signals among draw and state operations *)
NextContext ==
    \/ ContextLost
    \/ ContextRestored
    \/ Save
    \/ Restore
    \/ SetGlobalAlpha({1})
    \/ FillRect(DrawRects)
    \/ Flush
    \/ Clear

SpecContext == InitWith(Options) /\ [][NextContext]_vars

(* the two buffers under every operation that reaches a surface *)
BufferOptions == {o \in Options : o.blendMode = "undefined" /\ o.subPixel}

NextBuffer ==
    \/ Flush
    \/ Clear
    \/ ClearColor({"#ff0000"})
    \/ SetBlendMode({"multiply"})
    \/ SetColor
    \/ SetGlobalAlpha({0, AlphaScale})
    \/ Translate
    \/ ResetTransform
    \/ FillRect({FullRect})
    \/ StrokePolygon
    \/ DrawImage3
    \/ DrawPattern

SpecBuffer == InitWith(BufferOptions) /\ [][NextBuffer]_vars

(* the pixel grid: every operation that snaps a coordinate, with and without subPixel *)
SnapOptions == {o \in Options : o.blendMode = "undefined" /\ ~o.transparent}

NextSnap ==
    \/ Translate
    \/ Transform
    \/ ResetTransform
    \/ DrawImage3
    \/ DrawImage5
    \/ DrawImage9
    \/ StrokePolygon
    \/ FillPolygon
    \/ StrokeArc
    \/ FillArc

SpecSnap == InitWith(SnapOptions) /\ [][NextSnap]_vars

---------------------------------------------------------------------------
(* Claims about the mask stack *)

Back == BackOf(renderer, surf)

(* C1: setMask called N >= 1 times from maskLevel = 0 and then clearMask,   *)
(* with nothing else in between, leaves the depth of the back buffer's      *)
(* save/restore stack as it was before the first setMask: one surface save  *)
(* was issued in all and clearMask issues one restore.                      *)
C1_MaskRunNetZero ==
    (lastOp.name = "clearMask" /\ hist.ended /\ hist.pure) =>
        /\ Len(Back.stack) = hist.depth0
        /\ hist.saves = 1
        /\ CountFn(calls, "restore") = 1

C1_Witness ==
    /\ lastOp.name = "clearMask" /\ hist.ended /\ hist.pure
    /\ hist.n = MaxMask
    /\ hist.depth0 = 1
    /\ Len(Back.stack) = 1

(* C2: maskLevel is the number of setMask calls made since the last        *)
(* clearMask (or since construction), whatever the shapes and invert flags. *)
C2_MaskLevelCountsPushes == renderer.maskLevel = hist.pushes

(* the path a shape's boundary is, traced on its own *)
MaskGeometry(mask) ==
    ShapeTrace([Cur EXCEPT !.sf = [c \in SurfIds |-> NewContext]], "back", mask).sf["back"].path

IsInfix(g, p) ==
    \E i \in 0..(Len(p) - Len(g)) : SubSeq(p, i + 1, i + Len(g)) = g

(* C3: after every setMask(shape), the first push included, the current    *)
(* path of the back buffer contains the shape's boundary.                   *)
C3_EveryPushTraces ==
    lastOp.name = "setMask" => IsInfix(MaskGeometry(lastOp.args[1]), Back.path)

(* C4 as claimed: whatever was issued since the first push, clearMask with *)
(* maskLevel > 0 leaves the surface state (transform, alpha, styles,        *)
(* composite operation, clip) as it was when the first push saved it.       *)
C4_ClearMaskRestoresFirstPush ==
    (lastOp.name = "clearMask" /\ hist.ended) => Frame(Back) = hist.snap

(* C4 amended: it does when the state saved by the first push is on top of *)
(* the stack again, i.e. every save() made since the first push has been    *)
(* matched by a restore() and no restore() has popped the first push's save.*)
C4_ClearMaskRestoresWhenBalanced ==
    (lastOp.name = "clearMask" /\ hist.ended /\ hist.balanced) => Frame(Back) = hist.snap

C4_Witness ==
    /\ lastOp.name = "clearMask" /\ hist.ended /\ hist.balanced
    /\ ~hist.pure /\ hist.changed /\ hist.n = MaxMask
    /\ Frame(Back) = hist.snap
    /\ Back.globalAlpha # AlphaScale

---------------------------------------------------------------------------
(* Claims about the drawing primitives *)

DrawOps ==
    {"drawImage", "drawPattern", "strokeArc", "fillArc", "strokeEllipse", "fillEllipse",
     "strokeLine", "fillLine", "strokePolygon", "fillPolygon", "strokeRect", "fillRect",
     "strokeRoundRect", "fillRoundRect"}

(* C5: a drawing primitive called while the global alpha is below 1/255    *)
(* issues no surface call and changes no state; called while it is 1/255 or *)
(* more, it issues at least one surface call.                               *)
C5_AlphaFastPath ==
    [][lastOp'.name \in DrawOps =>
          IF getGlobalAlpha(Cur) * 255 < AlphaScale
          THEN calls' = <<>> /\ UNCHANGED <<renderer, surf>>
          ELSE Len(calls') >= 1]_vars

C5_Witness ==
    /\ lastOp.name = "strokePolygon"
    /\ Back.globalAlpha * 255 = AlphaScale
    /\ Len(calls) >= 1

(* what a call leaves behind: the renderer, the surfaces, the calls issued *)
Outcome(s) == <<s.rn, s.sf, s.log, s.err>>

(* C6: fillX(args) issues the surface calls, and leaves the state, that    *)
(* strokeX(args, fill = true) does, for X among Rect, RoundRect, Ellipse,   *)
(* Arc and Polygon.                                                         *)
C6_FillIsStrokeWithFill ==
    [][LET a == lastOp'.args
           now == <<renderer', surf', calls', thrown'>>
       IN  /\ lastOp'.name = "fillRect" =>
                 now = Outcome(strokeRect(Cur, a[1][1], a[1][2], a[1][3], a[1][4], TRUE))
           /\ lastOp'.name = "fillRoundRect" =>
                 now = Outcome(strokeRoundRect(Cur, a[1][1], a[1][2], a[1][3], a[1][4],
                                               a[2], TRUE))
           /\ lastOp'.name = "fillEllipse" =>
                 now = Outcome(strokeEllipse(Cur, a[1][1], a[1][2], a[1][3], a[1][4], TRUE))
           /\ lastOp'.name = "fillArc" =>
                 now = Outcome(strokeArc(Cur, a[1][1], a[1][2], a[1][3], a[1][4], a[1][5],
                                         a[2], TRUE))
           /\ lastOp'.name = "fillPolygon" =>
                 now = Outcome(strokePolygon(Cur, a[1], TRUE))]_vars

C6_Witness ==
    /\ lastOp.name = "fillRect"
    /\ Len(calls) = 1
    /\ calls[1].fn = "fillRect"
    /\ calls[1].args = lastOp.args[1]

---------------------------------------------------------------------------
(* Claims about the blend mode *)

KnownModes == {"normal", "multiply", "additive", "lighter", "screen"}

CompositeOf(mode) ==
    CASE mode = "multiply" -> "multiply"
      [] mode \in {"additive", "lighter"} -> "lighter"
      [] mode = "screen" -> "screen"
      [] OTHER -> "source-over"

(* C7: setBlendMode never throws; it sets the composite operation of its   *)
(* target (the back buffer when no context is given) to source-over for     *)
(* normal, multiply for multiply, lighter for additive and lighter, screen  *)
(* for screen; and for any other token, or none, it leaves exactly the      *)
(* state setBlendMode("normal") leaves: source-over, currentBlendMode       *)
(* "normal".                                                                *)
C7_BlendModeTotal ==
    [][lastOp'.name = "setBlendMode" =>
          LET m == lastOp'.args[1]
              c == IF lastOp'.args[2] = "undefined" THEN renderer.backBufferContext2D
                   ELSE lastOp'.args[2]
              forced == settings.doubleBuffering /\ settings.transparent
                        /\ c = renderer.context
              asNormal == setBlendMode(Cur, "normal", lastOp'.args[2])
          IN  /\ thrown' = "none"
              /\ ~forced => surf'[c].globalCompositeOperation = CompositeOf(m)
              /\ m \in KnownModes => renderer'.currentBlendMode = m
              /\ m \notin KnownModes =>
                    /\ renderer'.currentBlendMode = "normal"
                    /\ <<renderer', surf'>> = <<asNormal.rn, asNormal.sf>>]_vars

C7_Witness ==
    /\ lastOp.name = "setBlendMode"
    /\ lastOp.args = <<"overlay", "undefined">>
    /\ renderer.currentBlendMode = "normal"
    /\ Back.globalCompositeOperation = "source-over"
    /\ Len(Back.stack) = 1
    /\ Back.stack[1].globalCompositeOperation = "multiply"

(* C8: with doubleBuffering and transparent both set, the front surface's  *)
(* composite operation is "copy" in every state after construction.         *)
C8_FrontBufferCopies ==
    (settings.doubleBuffering /\ settings.transparent) =>
        surf[renderer.context].globalCompositeOperation = "copy"

C8_Witness ==
    /\ settings.doubleBuffering /\ settings.transparent
    /\ lastOp.name = "setBlendMode"
    /\ lastOp.args = <<"multiply", "front">>
    /\ surf["front"].globalCompositeOperation = "copy"
    /\ surf["back"].globalCompositeOperation = "lighter"

---------------------------------------------------------------------------
(* Claims about the cached scissor and the cached alpha *)

FnsOf(log) == [i \in DOMAIN log |-> log[i].fn]

(* C9: clipRect(x, y, w, h) builds the clip path (beginPath, rect, clip)   *)
(* exactly when the rectangle differs from the full back buffer and from    *)
(* the cached scissor, and the cached scissor then becomes the rectangle;   *)
(* otherwise it issues no surface call and leaves the cached scissor alone. *)
C9_ClipRectMemo ==
    [][lastOp'.name = "clipRect" =>
          LET r == lastOp'.args
          IN  IF r # FullRect /\ r # renderer.currentScissor
              THEN /\ FnsOf(calls') = <<"beginPath", "rect", "clip">>
                   /\ calls'[2].args = r
                   /\ renderer'.currentScissor = r
              ELSE /\ calls' = <<>>
                   /\ renderer'.currentScissor = renderer.currentScissor]_vars

C9_Witness ==
    /\ lastOp.name = "clipRect"
    /\ lastOp.args # FullRect
    /\ renderer.currentScissor = lastOp.args
    /\ calls = <<>>

(* C10: after restore() the cached scissor is the full back buffer and the *)
(* cached alpha is the surface's global alpha as the pop left it.           *)
C10_RestoreResyncs ==
    lastOp.name = "restore" =>
        /\ renderer.currentScissor = FullRect
        /\ renderer.alphaCache = Back.globalAlpha

C10_Witness ==
    /\ lastOp.name = "restore"
    /\ lastOp.args[1] # FullRect
    /\ lastOp.args[2] # renderer.alphaCache
    /\ renderer.currentScissor = FullRect
    /\ renderer.alphaCache = Back.globalAlpha
    /\ FnsOf(calls) = <<"restore">>

---------------------------------------------------------------------------
(* Claims about GLShader *)

(* the shader the last operation was called on *)
Target == shaders[lastOp.args[1]]

(* a compiled shader that destroy() has not reached: its sources are still set *)
Live(sh) == sh.made /\ sh.vertex # "null"

(* destroy() has run: tables cleared, GPU program deleted *)
Destroyed(sh, g) ==
    sh.made /\ sh.attributes.null /\ sh.uniforms.null /\ sh.program \in g.deleted

(* the location introspection recorded for a name, -1 for any other name *)
LocationOf(src, name) ==
    IF \E i \in DOMAIN Declared(src) : Declared(src)[i] = name
    THEN (CHOOSE i \in DOMAIN Declared(src) : Declared(src)[i] = name) - 1
    ELSE 0 - 1

(* C11: getAttribLocation(name) never throws, whatever the shader has been  *)
(* through (destroy(), a context-lost notification): it returns an integer, *)
(* at least -1.                                                             *)
C11_GetAttribLocationNeverThrows ==
    lastOp.name = "getAttribLocation" => thrown = "none" /\ returned >= 0 - 1

(* C12: on a compiled shader getAttribLocation(name) returns the location   *)
(* introspection recorded, which is not negative, for a name of the         *)
(* attribute table and -1 for any other name, and the table is the one      *)
(* built at construction whatever bind, setUniform and setVertexAttributes  *)
(* calls came since.                                                        *)
C12_AttribLocationStable ==
    /\ \A id \in ShaderIds :
          Live(shaders[id]) =>
              /\ ~shaders[id].attributes.null
              /\ \A n \in AttrNames :
                    LET l == shaders[id].attributes.tab[n]
                    IN  IF LocationOf(shaders[id].vertex, n) >= 0
                        THEN l = LocationOf(shaders[id].vertex, n)
                        ELSE l = undefined
    /\ (lastOp.name = "getAttribLocation" /\ Live(Target)) =>
          /\ thrown = "none"
          /\ returned = LocationOf(Target.vertex, lastOp.args[2])

C12_Witness ==
    /\ lastOp.name = "getAttribLocation"
    /\ Live(Target)
    /\ lastOp.args[2] = "aColor"
    /\ returned = 0
    /\ Target.uniforms.tab["uColor"] = Val("array", 1)
    /\ gl.program = Target.program

(* what setUniform is to store for a value *)
Flattened(value) == IF value.kind = "matrix" THEN Val("array", value.v) ELSE value

(* C13: setUniform(name, v) on an introspected name leaves uniforms[name]   *)
(* equal to v.toArray() when v is an object with a toArray function and to  *)
(* v otherwise, and changes no other uniform and no attribute.              *)
C13_SetUniformRoundTrips ==
    [][LET id == lastOp'.args[1]
           name == lastOp'.args[2]
       IN  (/\ lastOp'.name = "setUniform"
            /\ Live(shaders[id])
            /\ name \in Active(shaders[id].vertex)) =>
               /\ shaders'[id].uniforms.tab[name] = Flattened(lastOp'.args[3])
               /\ \A n \in UniNames \ {name} :
                     shaders'[id].uniforms.tab[n] = shaders[id].uniforms.tab[n]
               /\ shaders'[id].attributes = shaders[id].attributes]_vars

(* C14: setUniform(name, v) throws the unknown-uniform Error exactly when   *)
(* name was not found at introspection, and then changes no uniform; for an *)
(* introspected name it succeeds, whatever values were set before.          *)
C14_UnknownUniformOnly ==
    [][LET id == lastOp'.args[1]
           name == lastOp'.args[2]
       IN  (lastOp'.name = "setUniform" /\ Live(shaders[id])) =>
               IF name \in Active(shaders[id].vertex)
               THEN thrown' = "none"
               ELSE thrown' = "Error" /\ shaders'[id].uniforms = shaders[id].uniforms]_vars

GLCall(f, a) == [ctx |-> "gl", fn |-> f, args |-> a]

(* the calls the descriptors from position i on are to produce: enable and  *)
(* configure at the location of an active attribute, disable at the list    *)
(* index of any other                                                       *)
RECURSIVE ExpectedCalls(_, _, _, _)
ExpectedCalls(sh, attributes, vertexByteSize, i) ==
    IF i > Len(attributes) THEN <<>>
    ELSE LET element == attributes[i]
             active == ~sh.attributes.null /\ sh.attributes.tab[element.name] # undefined
             L == sh.attributes.tab[element.name]
         IN  (IF active
              THEN <<GLCall("enableVertexAttribArray", <<L>>),
                     GLCall("vertexAttribPointer",
                            <<L, element.size, element.type, element.normalized,
                              vertexByteSize, element.offset>>)>>
              ELSE <<GLCall("disableVertexAttribArray", <<i - 1>>)>>)
             \o ExpectedCalls(sh, attributes, vertexByteSize, i + 1)

(* C18: setVertexAttributes goes through the descriptors in order; for the  *)
(* descriptor at list index i it enables and configures location L when the *)
(* name is an active attribute at L, and disables index i otherwise; it     *)
(* never throws for a missing attribute.                                    *)
C18_VertexAttributesInOrder ==
    lastOp.name = "setVertexAttributes" =>
        /\ thrown = "none"
        /\ calls = ExpectedCalls(Target, lastOp.args[2], lastOp.args[3], 1)

---------------------------------------------------------------------------
(* Claims about the context-loss protocol of the canvas backend *)

Emitted(kind) == Cardinality({i \in DOMAIN calls : calls[i].ctx = "event" /\ calls[i].fn = kind})

(* C16: a contextlost signal sets isContextValid to false, prevents the     *)
(* host's default handling and emits one context-lost notification; a       *)
(* contextrestored signal sets isContextValid to true and emits one         *)
(* context-restored notification; no other operation changes the flag.      *)
C16_ValidityStateMachine ==
    /\ lastOp.name = "contextlost" =>
          /\ renderer.isContextValid = FALSE
          /\ \E i \in DOMAIN calls : calls[i].fn = "preventDefault"
          /\ Emitted("ONCONTEXT_LOST") = 1
    /\ lastOp.name = "contextrestored" =>
          /\ renderer.isContextValid = TRUE
          /\ Emitted("ONCONTEXT_RESTORED") = 1

---------------------------------------------------------------------------
(* Claims about drawImage, the two buffers and drawPattern *)

(* C17: drawImage(img, x, y) leaves what drawImage(img, 0, 0, img.width,    *)
(* img.height, x, y, img.width, img.height) leaves, and drawImage(img, x,   *)
(* y, w, h) what drawImage(img, 0, 0, img.width, img.height, x, y, w, h)    *)
(* leaves: the same surface call, from the same state.                      *)
C17_DrawImageArities ==
    [][LET a == lastOp'.args
           image == a[1]
           now == <<renderer', surf', calls', thrown'>>
       IN  lastOp'.name = "drawImage" =>
               /\ Len(a) = 3 =>
                     now = Outcome(drawImage(Cur, image, 0, 0, image.width, image.height,
                                             a[2], a[3], image.width, image.height))
               /\ Len(a) = 5 =>
                     now = Outcome(drawImage(Cur, image, 0, 0, image.width, image.height,
                                             a[2], a[3], a[4], a[5]))]_vars

C17_Witness ==
    /\ lastOp.name = "drawImage"
    /\ Len(lastOp.args) = 5
    /\ lastOp.args[2] = 3
    /\ settings.subPixel = FALSE
    /\ renderer.currentTint = "red"
    /\ Len(calls) = 1

(* the calls that paint *)
PaintFns == {"fill", "stroke", "fillRect", "strokeRect", "drawImage"}

(* C19: front and back are two surfaces exactly when double buffering is    *)
(* on; then no operation but flush paints on the front surface, and flush   *)
(* issues one call, the blit of the back buffer at (0, 0) on the front      *)
(* surface; with double buffering off flush issues no call.                 *)
C19_OnlyFlushReachesFront ==
    /\ settings.doubleBuffering <=> renderer.context # renderer.backBufferContext2D
    /\ lastOp.name # "flush" =>
          \A i \in DOMAIN calls :
              calls[i].fn \in PaintFns => calls[i].ctx = renderer.backBufferContext2D
    /\ lastOp.name = "flush" =>
          calls = IF settings.doubleBuffering
                  THEN <<[ctx |-> "front", fn |-> "drawImage",
                          args |-> <<CanvasOf("back"), 0, 0>>]>>
                  ELSE <<>>

C19_Witness ==
    /\ lastOp.name = "flush"
    /\ ~settings.doubleBuffering
    /\ calls = <<>>
    /\ Back.fillStyle = "#ff0000"
    /\ Back.tx # 0

(* C20: drawPattern leaves the fill style of the surface as it found it,    *)
(* whether it draws or returns on the alpha fast path.                      *)
C20_DrawPatternKeepsFillStyle ==
    [][lastOp'.name = "drawPattern" =>
          BackOf(renderer', surf').fillStyle = BackOf(renderer, surf).fillStyle]_vars

C20_Witness ==
    /\ lastOp.name = "drawPattern"
    /\ Back.fillStyle = "#ff0000"
    /\ \E i \in DOMAIN calls : calls[i].fn = "fillRect"

---------------------------------------------------------------------------
(* Claims about the pixel grid *)

(* Math.floor of a coordinate, in the model's units *)
Floor(n) == (n \div CoordScale) * CoordScale

(* what the claim has the surface receive for a coordinate *)
Snapped(n) == IF settings.subPixel = FALSE THEN Floor(n) ELSE n

(* C21: with subPixel disabled translate(x, y) passes floor(x), floor(y) to *)
(* the surface, transform(m) the floor of the two translation components,   *)
(* drawImage floor(dx), floor(dy) as destination, negative non-integers     *)
(* included; with subPixel enabled the values pass unchanged.               *)
C21_SnappingFloors ==
    LET a == lastOp.args
    IN  /\ lastOp.name = "translate" =>
              calls[1].args = <<Snapped(a[1]), Snapped(a[2])>>
        /\ lastOp.name = "transform" =>
              calls[1].args = <<1, 0, 0, 1, Snapped(a[1]), Snapped(a[2])>>
        /\ (lastOp.name = "drawImage" /\ Len(a) \in {3, 5}) =>
              /\ calls[1].args[6] = Snapped(a[2])
              /\ calls[1].args[7] = Snapped(a[3])
        /\ (lastOp.name = "drawImage" /\ Len(a) = 9) =>
              /\ calls[1].args[6] = Snapped(a[6])
              /\ calls[1].args[7] = Snapped(a[7])

(* C22: strokePolygon and strokeArc, and their fill variants, leave the     *)
(* transform of the surface as they found it, for every position, with and *)
(* without subPixel.                                                        *)
C22_TransformRestored ==
    [][lastOp'.name \in {"strokePolygon", "fillPolygon", "strokeArc", "fillArc"} =>
          /\ BackOf(renderer', surf').tx = BackOf(renderer, surf).tx
          /\ BackOf(renderer', surf').ty = BackOf(renderer, surf).ty]_vars

C22_Witness ==
    /\ lastOp.name = "strokePolygon"
    /\ settings.subPixel = FALSE
    /\ lastOp.args[1].pos = Pt(3, 0 - 3)
    /\ Back.tx = 0 - Px(1)
    /\ \E i \in DOMAIN calls : calls[i].fn = "translate" /\ calls[i].args = <<Px(1), 0 - Px(1)>>

---------------------------------------------------------------------------
(* Claims about the fill and stroke variants *)

(* a call sequence with every fill paint turned into the stroke paint *)
Repaint(log) ==
    [i \in DOMAIN log |->
        IF log[i].fn = "fill" THEN [log[i] EXCEPT !.fn = "stroke"]
        ELSE IF log[i].fn = "fillRect" THEN [log[i] EXCEPT !.fn = "strokeRect"]
        ELSE log[i]]

Paints(log, F) == Cardinality({i \in DOMAIN log : log[i].fn \in F})

(* the same geometry, one paint call each: a fill in the one, a stroke in the other *)
SameButPaint(filled, stroked) ==
    /\ Repaint(filled) = stroked
    /\ Paints(filled, {"fill", "fillRect"}) = 1
    /\ Paints(filled, {"stroke", "strokeRect"}) = 0
    /\ Paints(stroked, {"stroke", "strokeRect"}) = 1
    /\ Paints(stroked, {"fill", "fillRect"}) = 0

(* the fill variants of the shapes that enclose an area, against their stroke variants *)
AreaShapesDifferInPaint ==
    LET a == lastOp'.args
    IN  /\ lastOp'.name = "fillRect" =>
              SameButPaint(calls', strokeRect(Cur, a[1][1], a[1][2], a[1][3], a[1][4], FALSE).log)
        /\ lastOp'.name = "fillRoundRect" =>
              SameButPaint(calls', strokeRoundRect(Cur, a[1][1], a[1][2], a[1][3], a[1][4],
                                                   a[2], FALSE).log)
        /\ lastOp'.name = "fillEllipse" =>
              SameButPaint(calls', strokeEllipse(Cur, a[1][1], a[1][2], a[1][3], a[1][4],
                                                 FALSE).log)
        /\ lastOp'.name = "fillArc" =>
              SameButPaint(calls', strokeArc(Cur, a[1][1], a[1][2], a[1][3], a[1][4], a[1][5],
                                             a[2], FALSE).log)
        /\ lastOp'.name = "fillPolygon" =>
              SameButPaint(calls', strokePolygon(Cur, a[1], FALSE).log)

(* C23 as claimed: for every shape kind, the straight line included, the    *)
(* fill variant issues the calls of the stroke variant with a fill paint in *)
(* place of the stroke paint, so fillLine paints with fill.                 *)
C23_FillPaintsWithFill ==
    [][~FullyTransparent(Cur) =>
          /\ AreaShapesDifferInPaint
          /\ lastOp'.name = "fillLine" =>
                LET r == lastOp'.args[1]
                IN  SameButPaint(calls', strokeLine(Cur, r[1], r[2], r[3], r[4]).log)]_vars

(* C23 amended: for Rect, RoundRect, Ellipse, Arc and Polygon the fill      *)
(* variant issues the calls of the stroke variant with a fill paint in      *)
(* place of the stroke paint; fillLine issues the very calls of strokeLine, *)
(* the stroke paint included.                                               *)
C23_FillPaintsWithFillButLine ==
    [][~FullyTransparent(Cur) =>
          /\ AreaShapesDifferInPaint
          /\ lastOp'.name = "fillLine" =>
                LET r == lastOp'.args[1]
                IN  /\ calls' = strokeLine(Cur, r[1], r[2], r[3], r[4]).log
                    /\ Last(calls').fn = "stroke"]_vars

C23_Witness ==
    /\ lastOp.name = "fillLine"
    /\ Len(calls) = 4
    /\ Last(calls).fn = "stroke"
    /\ lastOp.args[1] = <<0 - 3, 1, Px(1), Px(1)>>

---------------------------------------------------------------------------
(* Claims about the GPU program and the vertex attribute arrays *)

(* C24: once destroy() has run, by a call or through a context-lost         *)
(* notification, no operation on the shader passes the released program     *)
(* handle to the device: bind() does not call useProgram with it.           *)
C24_NoUseAfterRelease ==
    \A i \in DOMAIN calls :
        calls[i].fn = "useProgram" => calls[i].args[1] \notin gl.deleted

(* C25: the program of a shader is released at most once: no deleteProgram  *)
(* is issued for a program that an earlier destroy() has deleted, an        *)
(* explicit destroy() followed by a context-lost notification included.     *)
C25_ReleasedOnce ==
    [][\A i \in DOMAIN calls' :
          calls'[i].fn = "deleteProgram" => calls'[i].args[1] \notin gl.deleted]_vars

(* the array at location L is enabled once the calls of the log are done *)
EnabledAfter(log, L) ==
    \E i \in DOMAIN log :
        /\ log[i].fn = "enableVertexAttribArray"
        /\ log[i].args[1] = L
        /\ \A j \in DOMAIN log :
              j > i => ~(log[j].fn = "disableVertexAttribArray" /\ log[j].args[1] = L)

(* C26: when setVertexAttributes returns, the array is enabled at the       *)
(* location of every descriptor whose name is an active attribute: no later *)
(* descriptor missing from the program disables what an earlier one         *)
(* enabled.                                                                 *)
C26_ActiveAttributesEnabled ==
    (lastOp.name = "setVertexAttributes" /\ thrown = "none") =>
        \A i \in DOMAIN lastOp.args[2] :
            LET L == Target.attributes.tab[lastOp.args[2][i].name]
            IN  L # undefined => EnabledAfter(calls, L)

---------------------------------------------------------------------------
(* Claims about the cached alpha and clearColor *)

(* C27: after every operation the cached alpha (the alpha channel of        *)
(* currentColor) is the global alpha of the back buffer's surface, over     *)
(* setGlobalAlpha, save, restore, setMask and clearMask.                    *)
C27_CachedAlphaIsSurfaceAlpha == renderer.alphaCache = Back.globalAlpha

(* C28: clearColor(color, opaque) paints the whole back buffer in every     *)
(* state, a global alpha below 1/255 included: one fillRect of (0, 0,       *)
(* width, height) under the identity transform, between a save and a        *)
(* restore, and the transform, fill style, composite operation and stack    *)
(* depth of the surface end as they began.                                  *)
C28_ClearColorPaintsAll ==
    [][lastOp'.name = "clearColor" =>
          LET before == BackOf(renderer, surf)
              after == BackOf(renderer', surf')
          IN  /\ FnsOf(calls') = <<"save", "setTransform", "globalCompositeOperation=",
                                    "fillStyle=", "fillRect", "restore">>
              /\ calls'[2].args = <<0, 0>>
              /\ calls'[5].args = <<0, 0, Canvas.width, Canvas.height>>
              /\ after.tx = before.tx /\ after.ty = before.ty
              /\ after.fillStyle = before.fillStyle
              /\ after.globalCompositeOperation = before.globalCompositeOperation
              /\ Len(after.stack) = Len(before.stack)]_vars

====
